---- MODULE Spec2Model ----
(***************************************************************************)
(* Model of the virtual-port layer of the datapath (datapath/vport.c):     *)
(* the RCU-protected port registry, the per-port statistics, and the       *)
(* transmit pipeline with IPv4 fragmentation.                              *)
(***************************************************************************)
EXTENDS Integers, Sequences, FiniteSets, TLC

(***************************************************************************)
(* Bounds of the model.                                                    *)
(***************************************************************************)
MaxVports == 2
NumReaders == 1
NumCpus == 1
MaxOps == 2
MaxRegOps == 3
MaxFrags == 4

(***************************************************************************)
(* Program constants.                                                      *)
(***************************************************************************)
VPORT_HASH_BUCKETS == 1024
EAFNOSUPPORT == 97
ENOMEM == 12

NULL == 0
LIST_POISON == -1

Vports == 1..MaxVports
Readers == 1..NumReaders
Observed == CHOOSE r \in Readers : \A q \in Readers : r <= q

\* A port is looked up by <<namespace, name>>: the namespace is the address
\* of a struct net, the name a string of character codes.  The two keys of
\* the model differ in the name and fall into the same bucket.
Keys == { <<1, <<3>> >>, <<1, <<1, 1>> >> }

\* The port types of the compiled-in implementations, in list order.
vport_ops_list == << "NETDEV", "INTERNAL", "GRE", "GRE64", "VXLAN", "LISP" >>

\* The port types a caller of ovs_vport_add asks for in this model.
ParmTypes == {"NETDEV", "UNSPEC"}

RECURSIVE SumSeq(_)
SumSeq(s) == IF s = << >> THEN 0 ELSE Head(s) + SumSeq(Tail(s))

\* jhash(key, length, initval): a hash of the key bytes salted by initval.
\* Only its low bits are used, and the sums of this model stay far below
\* 2^32.
jhash(name, length, initval) == SumSeq(name) + length + initval

\* x & (VPORT_HASH_BUCKETS - 1), VPORT_HASH_BUCKETS being a power of two.
hash_bucket(net, name) == jhash(name, Len(name), net) % VPORT_HASH_BUCKETS

Buckets == {hash_bucket(k[1], k[2]) : k \in Keys}

VARIABLES
  dev_table,   \* bucket -> first vport of the bucket's chain, or NULL
  vmem,        \* vport -> "unalloc" | "alloc" | "ready" | "freed"
  vname,       \* vport -> name reported by its implementation
  vnet,        \* vport -> namespace of its datapath
  hnext,       \* vport -> hash_node.next
  hpprev,      \* vport -> hash_node.pprev: <<"head", b>>, <<"next", v>> or POISON
  rcu_cb,      \* vport -> "none" | "queued" | "done": its call_rcu callback
  rcu_wait,    \* vport -> readers the grace period of its callback waits for
  wpc,         \* position of the holder of ovs_mutex
  wv,          \* the vport the holder of ovs_mutex works on
  wparms,      \* the parameters of the ovs_vport_add in progress
  wret,        \* what the last ovs_vport_add returned (vport or -errno)
  wdead,       \* vports deleted by the caller and not yet handed to deferred_free
  rd,          \* reader -> its position, arguments and locals
  \* history variables of the registry
  hAttached,   \* vports ovs_vport_add has linked and ovs_vport_del not yet unlinked
  hAdded,      \* vports whose ovs_vport_add has returned, not yet passed to del
  hDeleted,    \* vports whose ovs_vport_del has returned
  \* The history of a locate call is kept for the calls of one reader, the
  \* observed one; the readers run the same code.
  hSeen,       \* vports attached at some point of the observed locate call
  hLive,       \* vports added before the observed locate call, not deleted since
  hGone,       \* vports deleted before the observed locate call started
  hFault,      \* reader -> it dereferenced memory that is not a ready vport
  hGrace       \* vport -> readers in a read-side section when its free was requested

regVars == << dev_table, vmem, vname, vnet, hnext, hpprev, rcu_cb, rcu_wait,
              wpc, wv, wparms, wret, wdead, rd,
              hAttached, hAdded, hDeleted, hSeen, hLive, hGone, hFault, hGrace >>


(***************************************************************************)
(* The statistics of one vport and the execution contexts that work on it. *)
(***************************************************************************)
CPUs == 1..NumCpus
\* Every cpu runs a task and, interrupting it, softirq (bottom half) code.
Ctxs == CPUs \X {"task", "bh"}
\* The task that asks for the statistics on a cpu where the vport has no
\* traffic: its own slot of percpu_stats stays zero and adds nothing.
Mgmt == << 0, "task" >>
AllCtxs == Ctxs \cup {Mgmt}
NoCtx == << 0, "none" >>

ErrKinds == {"VPORT_E_RX_DROPPED", "VPORT_E_RX_ERROR",
             "VPORT_E_TX_DROPPED", "VPORT_E_TX_ERROR"}

\* struct ovs_vport_stats
ZeroStats == [rx_packets |-> 0, tx_packets |-> 0, rx_bytes |-> 0, tx_bytes |-> 0,
              rx_errors |-> 0, tx_errors |-> 0, rx_dropped |-> 0, tx_dropped |-> 0]
\* struct vport_err_stats
ZeroErr == [rx_dropped |-> 0, rx_errors |-> 0, tx_dropped |-> 0, tx_errors |-> 0]
\* struct pcpu_tstats
ZeroPcpu == [rx_packets |-> 0, rx_bytes |-> 0, tx_packets |-> 0, tx_bytes |-> 0,
             syncp |-> 0]

\* The statistics a caller of ovs_vport_set_stats passes, and the lengths
\* of the packets received.
SetChoices == { [rx_packets |-> 1, tx_packets |-> 2, rx_bytes |-> 3, tx_bytes |-> 4,
                 rx_errors |-> 5, tx_errors |-> 6, rx_dropped |-> 7, tx_dropped |-> 8] }
RxLens == {3}

VARIABLES
  offset_stats,  \* vport->offset_stats
  err_stats,     \* vport->err_stats
  percpu_stats,  \* cpu -> its slot of vport->percpu_stats
  stats_lock,    \* the context that holds vport->stats_lock, or NoCtx
  cx,            \* context -> its position, arguments and locals
  nops,          \* the number of operations started
  \* history variables of the statistics
  hErrCalls,     \* kind -> calls of ovs_vport_record_error(kind) so far
  hErrDone,      \* kind -> calls of ovs_vport_record_error(kind) that returned
  hSetSeq,       \* the number of ovs_vport_set_stats calls that returned
  hLastSet,      \* the statistics the last of them set
  hTraffic,      \* receive, send or record_error has run since
  hQuiet         \* context -> nothing else has run since its get_stats began

statVars == << offset_stats, err_stats, percpu_stats, stats_lock, cx, nops,
               hErrCalls, hErrDone, hSetSeq, hLastSet, hTraffic, hQuiet >>
statVarsButNops == << offset_stats, err_stats, percpu_stats, stats_lock, cx, hErrCalls, hErrDone, hSetSeq, hLastSet, hTraffic, hQuiet >>


(***************************************************************************)
(* The transmit pipeline: the vport a packet is sent on, the packets       *)
(* handed to the implementation's send, and the buffers released.          *)
(***************************************************************************)
VARIABLES
  vp,         \* the vport: its type and the mtu of its device
  tx,         \* context -> the packet it sends and the locals of the send
  wire,       \* per context: the packets handed to vport->ops->send, with its result
  kfree_log   \* per context: the buffers passed to kfree_skb, in order

txVars == << vp, tx, wire, kfree_log >>

vars == << regVars, statVars, txVars >>

IdleCtx == [pc |-> "idle", kind |-> "", econt |-> "", len |-> 0, S |-> ZeroStats,
            stats |-> ZeroStats, i |-> 0, start |-> 0, local |-> ZeroPcpu,
            gCalls |-> ZeroErr, gDone |-> ZeroErr, gOffset |-> ZeroStats,
            gSetSeq |-> 0, gPre |-> << >>, gStart |-> << >>, gPrev |-> << >>]

\* ovs_vport_alloc: kzalloc and alloc_percpu zero the statistics,
\* spin_lock_init leaves the lock free.
InitStats ==
  /\ offset_stats = ZeroStats
  /\ err_stats = ZeroErr
  /\ percpu_stats = [c \in CPUs |-> ZeroPcpu]
  /\ stats_lock = NoCtx
  /\ cx = [c \in AllCtxs |-> IdleCtx]
  /\ nops = 0
  /\ hErrCalls = ZeroErr
  /\ hErrDone = ZeroErr
  /\ hSetSeq = 0
  /\ hLastSet = ZeroStats
  /\ hTraffic = FALSE
  /\ hQuiet = [c \in AllCtxs |-> FALSE]

\* A vport in use: ovs_vport_set_stats has stored an offset, then one
\* transmit drop was recorded and one packet of 3 bytes was received on
\* cpu 1, and all three calls have returned.
UsedOffset == [f \in DOMAIN ZeroStats |-> 10]
UsedStats ==
  /\ offset_stats = UsedOffset
  /\ err_stats = [ZeroErr EXCEPT !.tx_dropped = 1]
  /\ percpu_stats = [c \in CPUs |-> IF c = 1
                                     THEN [ZeroPcpu EXCEPT !.rx_packets = 1, !.rx_bytes = 3,
                                                           !.syncp = 2]
                                     ELSE ZeroPcpu]
  /\ stats_lock = NoCtx
  /\ cx = [c \in AllCtxs |-> IdleCtx]
  /\ nops = 0
  /\ hErrCalls = [ZeroErr EXCEPT !.tx_dropped = 1]
  /\ hErrDone = [ZeroErr EXCEPT !.tx_dropped = 1]
  /\ hSetSeq = 1
  /\ hLastSet = UsedOffset
  /\ hTraffic = TRUE
  /\ hQuiet = [c \in AllCtxs |-> FALSE]

NoParms == [type |-> "UNSPEC", net |-> 0, name |-> << >>]
IdleReader == [pc |-> "out", net |-> 0, name |-> << >>, cur |-> NULL, res |-> NULL]

InitReg ==
  /\ dev_table = [b \in Buckets |-> NULL]
  /\ vmem = [v \in Vports |-> "unalloc"]
  /\ vname = [v \in Vports |-> << >>]
  /\ vnet = [v \in Vports |-> 0]
  /\ hnext = [v \in Vports |-> NULL]
  /\ hpprev = [v \in Vports |-> << >>]
  /\ rcu_cb = [v \in Vports |-> "none"]
  /\ rcu_wait = [v \in Vports |-> {}]
  /\ wpc = "idle"
  /\ wv = NULL
  /\ wparms = NoParms
  /\ wret = NULL
  /\ wdead = {}
  /\ rd = [r \in Readers |-> IdleReader]
  /\ hAttached = {}
  /\ hAdded = {}
  /\ hDeleted = {}
  /\ hSeen = {}
  /\ hLive = {}
  /\ hGone = {}
  /\ hFault = [r \in Readers |-> FALSE]
  /\ hGrace = [v \in Vports |-> {}]

hist == << hAttached, hAdded, hDeleted, hSeen, hLive, hGone, hFault, hGrace >>

(***************************************************************************)
(* ovs_vport_add, run by the holder of ovs_mutex.                          *)
(***************************************************************************)
\* The index of the first implementation of the list whose type is the
\* requested one, 0 when there is none.
OpsIndexOrFirst(type) == 1
OpsIndex(type) ==
  IF \E i \in 1..Len(vport_ops_list) : vport_ops_list[i] = type
  THEN CHOOSE i \in 1..Len(vport_ops_list) :
         /\ vport_ops_list[i] = type
         /\ \A j \in 1..(i - 1) : vport_ops_list[j] # type
  ELSE 0

\* ovs_vport_add is entered: the list of implementations is scanned; with no
\* match the call returns -EAFNOSUPPORT at once.
AddCall ==
  /\ nops < MaxRegOps
  /\ wpc = "idle"
  /\ \E t \in ParmTypes, k \in Keys :
       /\ wparms' = [type |-> t, net |-> k[1], name |-> k[2]]
       /\ IF OpsIndex(t) = 0
          THEN /\ wret' = -EAFNOSUPPORT
               /\ wpc' = "added"
          ELSE /\ wret' = NULL
               /\ wpc' = "create"
  /\ wv' = NULL
  /\ UNCHANGED << dev_table, vmem, vname, vnet, hnext, hpprev, rcu_cb, rcu_wait, wdead, rd >>
  /\ UNCHANGED hist
  /\ nops' = nops + 1
  /\ UNCHANGED << statVarsButNops, txVars >>

\* create() of the implementation fails: add returns its error.
AddCreateFail ==
  /\ wpc = "create"
  /\ wret' = -ENOMEM
  /\ wpc' = "added"
  /\ wparms' = NoParms
  /\ UNCHANGED << dev_table, vmem, vname, vnet, hnext, hpprev, rcu_cb, rcu_wait, wv, wdead, rd >>
  /\ UNCHANGED hist
  /\ UNCHANGED << statVars, txVars >>

\* create() calls ovs_vport_alloc: zeroed memory, dp, ops and the per-cpu
\* stats are set; the private part (the name) is not yet.
AddAlloc ==
  /\ wpc = "create"
  /\ \E v \in Vports :
       /\ vmem[v] = "unalloc"
       /\ \A u \in Vports : vmem[u] = "unalloc" => v <= u
       /\ vmem' = [vmem EXCEPT ![v] = "alloc"]
       /\ vnet' = [vnet EXCEPT ![v] = wparms.net]
       /\ wv' = v
  /\ wpc' = "init"
  /\ UNCHANGED << dev_table, vname, hnext, hpprev, rcu_cb, rcu_wait, wparms, wret, wdead, rd >>
  /\ UNCHANGED hist
  /\ UNCHANGED << statVars, txVars >>

\* create() finishes the private part and returns the vport.
AddCreated ==
  /\ wpc = "init"
  /\ vname' = [vname EXCEPT ![wv] = wparms.name]
  /\ vmem' = [vmem EXCEPT ![wv] = "ready"]
  /\ wpc' = "link"
  /\ UNCHANGED << dev_table, vnet, hnext, hpprev, rcu_cb, rcu_wait, wv, wparms, wret, wdead, rd >>
  /\ UNCHANGED hist
  /\ UNCHANGED << statVars, txVars >>

\* The value hlist_add_head_rcu stores in n->next: the old first node.
HlistAddNextBroken(first) == NULL
HlistAddNext(first) == first

\* hlist_add_head_rcu(&vport->hash_node, bucket): n->next = first and
\* n->pprev = &h->first are written before rcu_assign_pointer(h->first, n)
\* makes the node visible; then first->pprev = &n->next, and ovs_vport_add
\* returns the vport.
AddLink ==
  /\ wpc = "link"
  /\ LET b == hash_bucket(vnet[wv], vname[wv])
         first == dev_table[b] IN
       /\ hnext' = [hnext EXCEPT ![wv] = HlistAddNext(first)]
       /\ dev_table' = [dev_table EXCEPT ![b] = wv]
       /\ hpprev' = IF first # NULL
                    THEN [hpprev EXCEPT ![wv] = <<"head", b>>,
                                        ![first] = <<"next", wv>>]
                    ELSE [hpprev EXCEPT ![wv] = <<"head", b>>]
  /\ wret' = wv
  /\ wpc' = "added"
  /\ wv' = NULL
  /\ wparms' = NoParms
  /\ hAttached' = hAttached \cup {wv}
  /\ hAdded' = hAdded \cup {wv}
  /\ hSeen' = IF rd[Observed].pc = "loop" THEN hSeen \cup {wv} ELSE hSeen
  /\ UNCHANGED << vmem, vname, vnet, rcu_cb, rcu_wait, wdead, rd >>
  /\ UNCHANGED << hDeleted, hLive, hGone, hFault, hGrace >>
  /\ UNCHANGED << statVars, txVars >>

\* The caller of ovs_vport_add has taken the value returned.
AddReturn ==
  /\ wpc = "added"
  /\ wpc' = "idle"
  /\ wret' = NULL
  /\ wparms' = NoParms
  /\ UNCHANGED << dev_table, vmem, vname, vnet, hnext, hpprev, rcu_cb, rcu_wait,
                  wv, wdead, rd >>
  /\ UNCHANGED hist
  /\ UNCHANGED << statVars, txVars >>

(***************************************************************************)
(* ovs_vport_del and ovs_vport_deferred_free, run by the holder of         *)
(* ovs_mutex, and the RCU callback free_vport_rcu.                         *)
(***************************************************************************)
\* hlist_del_rcu leaves n->next in place for the readers that stand on n.
\* The value n->next has after the removal.
HlistDelNextPoisoned(next) == LIST_POISON
HlistDelNext(next) == next

\* ovs_vport_del(vport) for a vport ovs_vport_add has returned:
\* hlist_del_rcu does *pprev = next; next->pprev = pprev; n->pprev = POISON.
DelUnlink ==
  /\ nops < MaxRegOps
  /\ wpc = "idle"
  /\ \E v \in hAdded :
       LET next == hnext[v]
           pprev == hpprev[v] IN
       /\ IF pprev[1] = "head"
          THEN /\ dev_table' = [dev_table EXCEPT ![pprev[2]] = next]
               /\ hnext' = [hnext EXCEPT ![v] = HlistDelNext(next)]
          ELSE /\ dev_table' = dev_table
               /\ hnext' = [hnext EXCEPT ![pprev[2]] = next,
                                         ![v] = HlistDelNext(next)]
       /\ hpprev' = IF next # NULL
                    THEN [hpprev EXCEPT ![next] = pprev, ![v] = <<"poison", 0>>]
                    ELSE [hpprev EXCEPT ![v] = <<"poison", 0>>]
       /\ wv' = v
       /\ hAdded' = hAdded \ {v}
       /\ hLive' = hLive \ {v}
       /\ hAttached' = hAttached \ {v}
  /\ wpc' = "destroy"
  /\ UNCHANGED << vmem, vname, vnet, rcu_cb, rcu_wait, wparms, wret, wdead, rd >>
  /\ UNCHANGED << hDeleted, hSeen, hGone, hFault, hGrace >>
  /\ nops' = nops + 1
  /\ UNCHANGED << statVarsButNops, txVars >>

\* vport->ops->destroy(vport); ovs_vport_del returns and leaves the vport
\* to its caller, which requests the deferred free next.
DelDestroy ==
  /\ wpc = "destroy"
  /\ wdead' = wdead \cup {wv}
  /\ hDeleted' = hDeleted \cup {wv}
  /\ wpc' = "deleted"
  /\ wv' = NULL
  /\ UNCHANGED << dev_table, vmem, vname, vnet, hnext, hpprev, rcu_cb, rcu_wait,
                  wparms, wret, rd >>
  /\ UNCHANGED << hAttached, hAdded, hSeen, hLive, hGone, hFault, hGrace >>
  /\ UNCHANGED << statVars, txVars >>

\* The readers inside a read-side critical section.
InSection == {r \in Readers : rd[r].pc # "out"}

\* call_rcu: the readers the callback's grace period has to wait for.
GraceReadersNone == {}
GraceReaders == InSection

\* ovs_vport_deferred_free(vport) for an unlinked vport: call_rcu.
DeferredFree ==
  /\ wpc = "deleted"
  /\ wpc' = "idle"
  /\ \E v \in wdead :
       /\ wdead' = wdead \ {v}
       /\ rcu_cb' = [rcu_cb EXCEPT ![v] = "queued"]
       /\ rcu_wait' = [rcu_wait EXCEPT ![v] = GraceReaders]
       /\ hGrace' = [hGrace EXCEPT ![v] = InSection]
  /\ UNCHANGED << dev_table, vmem, vname, vnet, hnext, hpprev, wv, wparms,
                  wret, rd >>
  /\ UNCHANGED << hAttached, hAdded, hDeleted, hSeen, hLive, hGone, hFault >>
  /\ UNCHANGED << statVars, txVars >>

\* The grace period of a queued callback is over: free_vport_rcu calls
\* ovs_vport_free, which frees the per-cpu stats and the vport; nothing of
\* the vport's contents is left.
FreeVportRcu ==
  /\ \E v \in Vports :
       /\ rcu_cb[v] = "queued"
       /\ rcu_wait[v] = {}
       /\ rcu_cb' = [rcu_cb EXCEPT ![v] = "done"]
       /\ vmem' = [vmem EXCEPT ![v] = "freed"]
       /\ vname' = [vname EXCEPT ![v] = << >>]
       /\ vnet' = [vnet EXCEPT ![v] = 0]
       /\ hnext' = [hnext EXCEPT ![v] = NULL]
       /\ hpprev' = [hpprev EXCEPT ![v] = << >>]
  /\ UNCHANGED << dev_table, rcu_wait, wpc, wv, wparms, wret, wdead, rd >>
  /\ UNCHANGED hist
  /\ UNCHANGED << statVars, txVars >>

(***************************************************************************)
(* Readers: rcu_read_lock, ovs_vport_locate, a use of the vport found,     *)
(* rcu_read_unlock.                                                        *)
(***************************************************************************)
RcuReadLock(r) ==
  /\ rd[r].pc = "out"
  /\ rd' = [rd EXCEPT ![r].pc = "in"]
  /\ UNCHANGED << dev_table, vmem, vname, vnet, hnext, hpprev, rcu_cb, rcu_wait,
                  wpc, wv, wparms, wret, wdead >>
  /\ UNCHANGED hist
  /\ UNCHANGED << statVars, txVars >>

\* ovs_vport_locate(net, name) is entered: bucket = hash_bucket(net, name)
\* and hlist_for_each_entry_rcu starts with
\* pos = rcu_dereference(bucket->first).
LocateCall(r) ==
  /\ rd[r].pc = "in"
  /\ \E k \in Keys :
       LET bucket == hash_bucket(k[1], k[2]) IN
       rd' = [rd EXCEPT ![r] = [pc |-> "loop", net |-> k[1], name |-> k[2],
                                cur |-> dev_table[bucket], res |-> NULL]]
  /\ hSeen' = IF r = Observed THEN hAttached ELSE hSeen
  /\ hLive' = IF r = Observed THEN hAdded ELSE hLive
  /\ hGone' = IF r = Observed THEN hDeleted ELSE hGone
  /\ UNCHANGED << dev_table, vmem, vname, vnet, hnext, hpprev, rcu_cb, rcu_wait,
                  wpc, wv, wparms, wret, wdead >>
  /\ UNCHANGED << hAttached, hAdded, hDeleted, hFault, hGrace >>
  /\ UNCHANGED << statVars, txVars >>

\* A pointer a reader may dereference: a vport, initialized and not freed.
ValidVport(p) == p \in Vports /\ vmem[p] = "ready"

\* One turn of the loop: the end of the chain returns NULL; an entry of the
\* name and namespace asked for is returned; otherwise
\* pos = rcu_dereference(pos->hash_node.next).  A dereference of memory that
\* is no initialized vport has no defined outcome.
LocateStep(r) ==
  /\ rd[r].pc = "loop"
  /\ LET cur == rd[r].cur IN
       IF cur = NULL
       THEN /\ rd' = [rd EXCEPT ![r].res = NULL, ![r].pc = "ret"]
            /\ hFault' = hFault
       ELSE IF ~ValidVport(cur)
       THEN /\ \E x \in Vports \cup {NULL} :
                 rd' = [rd EXCEPT ![r].res = x, ![r].cur = NULL, ![r].pc = "ret"]
            /\ hFault' = [hFault EXCEPT ![r] = TRUE]
       ELSE IF vname[cur] = rd[r].name /\ vnet[cur] = rd[r].net
       THEN /\ rd' = [rd EXCEPT ![r].res = cur, ![r].cur = NULL, ![r].pc = "ret"]
            /\ hFault' = hFault
       ELSE /\ rd' = [rd EXCEPT ![r].cur = hnext[cur]]
            /\ hFault' = hFault
  /\ UNCHANGED << dev_table, vmem, vname, vnet, hnext, hpprev, rcu_cb, rcu_wait,
                  wpc, wv, wparms, wret, wdead >>
  /\ UNCHANGED << hAttached, hAdded, hDeleted, hSeen, hLive, hGone, hGrace >>
  /\ UNCHANGED << statVars, txVars >>

\* rcu_read_unlock: no grace period waits for this reader any longer.
RcuReadUnlock(r) ==
  /\ rd[r].pc \in {"in", "ret"}
  /\ rd' = [rd EXCEPT ![r] = IdleReader]
  /\ rcu_wait' = [v \in Vports |-> rcu_wait[v] \ {r}]
  /\ hGrace' = [v \in Vports |-> hGrace[v] \ {r}]
  /\ hSeen' = IF r = Observed THEN {} ELSE hSeen
  /\ hLive' = IF r = Observed THEN {} ELSE hLive
  /\ hGone' = IF r = Observed THEN {} ELSE hGone
  /\ UNCHANGED << dev_table, vmem, vname, vnet, hnext, hpprev, rcu_cb,
                  wpc, wv, wparms, wret, wdead >>
  /\ UNCHANGED << hAttached, hAdded, hDeleted, hFault >>
  /\ UNCHANGED << statVars, txVars >>

(***************************************************************************)
(* Execution contexts.  Softirq code interrupts the task of its cpu and    *)
(* runs to its end; it does not start while the task has bottom halves     *)
(* disabled, which spin_lock_bh does until spin_unlock_bh.                 *)
(***************************************************************************)
Task(cpu) == << cpu, "task" >>
Bh(cpu) == << cpu, "bh" >>

\* The positions of a task between spin_lock_bh and spin_unlock_bh.
BhOffPcs == {"set_lock", "set_store", "get_lock", "get_base"}
BhOff(cpu) == cx[Task(cpu)].pc \in BhOffPcs

Runnable(c) == c \in Ctxs /\ c[2] = "task" => cx[Bh(c[1])].pc = "idle"

\* Context c may enter an operation.
MayBegin(c) ==
  /\ cx[c].pc = "idle"
  /\ Runnable(c)
  /\ c[2] = "bh" => ~BhOff(c[1])
  /\ nops < MaxOps

\* A step of c ends the quiet of the get_stats calls of the other contexts.
Disturb(c) == [x \in AllCtxs |-> hQuiet[x] /\ x = c]

OthersIdle(c) == \A x \in Ctxs \ {c} : cx[x].pc = "idle"

(***************************************************************************)
(* ovs_vport_record_error                                                  *)
(***************************************************************************)
\* The switch of ovs_vport_record_error: one counter is incremented.
ErrIncrementFallThrough(err, kind) ==
  CASE kind = "VPORT_E_RX_DROPPED" ->
         [err EXCEPT !.rx_dropped = @ + 1, !.rx_errors = @ + 1]
    [] kind = "VPORT_E_RX_ERROR" -> [err EXCEPT !.rx_errors = @ + 1]
    [] kind = "VPORT_E_TX_DROPPED" ->
         [err EXCEPT !.tx_dropped = @ + 1, !.tx_errors = @ + 1]
    [] kind = "VPORT_E_TX_ERROR" -> [err EXCEPT !.tx_errors = @ + 1]
ErrIncrement(err, kind) ==
  CASE kind = "VPORT_E_RX_DROPPED" -> [err EXCEPT !.rx_dropped = @ + 1]
    [] kind = "VPORT_E_RX_ERROR" -> [err EXCEPT !.rx_errors = @ + 1]
    [] kind = "VPORT_E_TX_DROPPED" -> [err EXCEPT !.tx_dropped = @ + 1]
    [] kind = "VPORT_E_TX_ERROR" -> [err EXCEPT !.tx_errors = @ + 1]

\* The counter of struct vport_err_stats a kind of error is counted in.
ErrField(kind) ==
  CASE kind = "VPORT_E_RX_DROPPED" -> "rx_dropped"
    [] kind = "VPORT_E_RX_ERROR" -> "rx_errors"
    [] kind = "VPORT_E_TX_DROPPED" -> "tx_dropped"
    [] kind = "VPORT_E_TX_ERROR" -> "tx_errors"

\* ovs_vport_record_error(vport, kind) is called by an implementation.
ErrCall(c) ==
  /\ MayBegin(c)
  /\ \E kind \in ErrKinds :
       /\ cx' = [cx EXCEPT ![c].pc = "err_lock", ![c].kind = kind,
                           ![c].econt = "idle"]
       /\ hErrCalls' = [hErrCalls EXCEPT ![ErrField(kind)] = @ + 1]
  /\ nops' = nops + 1
  /\ hTraffic' = TRUE
  /\ hQuiet' = Disturb(c)
  /\ UNCHANGED << offset_stats, err_stats, percpu_stats, stats_lock,
                  hErrDone, hSetSeq, hLastSet >>
  /\ UNCHANGED << regVars, txVars >>

\* spin_lock(&vport->stats_lock)
ErrLock(c) ==
  /\ cx[c].pc = "err_lock"
  /\ Runnable(c)
  /\ stats_lock = NoCtx
  /\ stats_lock' = c
  /\ cx' = [cx EXCEPT ![c].pc = "err_inc"]
  /\ hTraffic' = TRUE
  /\ hQuiet' = Disturb(c)
  /\ UNCHANGED << offset_stats, err_stats, percpu_stats, nops,
                  hErrCalls, hErrDone, hSetSeq, hLastSet >>
  /\ UNCHANGED << regVars, txVars >>

\* The switch, spin_unlock(&vport->stats_lock) and the return.
ErrIncUnlock(c) ==
  /\ cx[c].pc = "err_inc"
  /\ Runnable(c)
  /\ err_stats' = ErrIncrement(err_stats, cx[c].kind)
  /\ stats_lock' = NoCtx
  /\ cx' = [cx EXCEPT ![c].pc = cx[c].econt, ![c].kind = "", ![c].econt = ""]
  /\ hErrDone' = [hErrDone EXCEPT ![ErrField(cx[c].kind)] = @ + 1]
  /\ hTraffic' = TRUE
  /\ hQuiet' = Disturb(c)
  /\ UNCHANGED << offset_stats, percpu_stats, nops, hErrCalls, hSetSeq, hLastSet >>
  /\ UNCHANGED << regVars, txVars >>

(***************************************************************************)
(* ovs_vport_set_stats, called by a task that holds ovs_mutex.             *)
(***************************************************************************)
\* vport->offset_stats = *stats: the value stored.
SetStoreAdds(old, S) ==
  [f \in DOMAIN old |-> old[f] + S[f]]
SetStore(old, S) == S

SetCall(c) ==
  /\ MayBegin(c)
  /\ c[2] = "task"
  /\ \E S \in SetChoices :
       cx' = [cx EXCEPT ![c].pc = "set_lock", ![c].S = S]
  /\ nops' = nops + 1
  /\ hQuiet' = Disturb(c)
  /\ UNCHANGED << offset_stats, err_stats, percpu_stats, stats_lock,
                  hErrCalls, hErrDone, hSetSeq, hLastSet, hTraffic >>
  /\ UNCHANGED << regVars, txVars >>

\* spin_lock_bh(&vport->stats_lock)
SetLock(c) ==
  /\ cx[c].pc = "set_lock"
  /\ Runnable(c)
  /\ stats_lock = NoCtx
  /\ stats_lock' = c
  /\ cx' = [cx EXCEPT ![c].pc = "set_store"]
  /\ hQuiet' = Disturb(c)
  /\ UNCHANGED << offset_stats, err_stats, percpu_stats, nops,
                  hErrCalls, hErrDone, hSetSeq, hLastSet, hTraffic >>
  /\ UNCHANGED << regVars, txVars >>

\* vport->offset_stats = *stats; spin_unlock_bh(&vport->stats_lock)
SetStoreUnlock(c) ==
  /\ cx[c].pc = "set_store"
  /\ Runnable(c)
  /\ offset_stats' = SetStore(offset_stats, cx[c].S)
  /\ stats_lock' = NoCtx
  /\ cx' = [cx EXCEPT ![c] = IdleCtx]
  /\ hSetSeq' = hSetSeq + 1
  /\ hLastSet' = cx[c].S
  /\ hTraffic' = FALSE
  /\ hQuiet' = Disturb(c)
  /\ UNCHANGED << err_stats, percpu_stats, nops, hErrCalls, hErrDone >>
  /\ UNCHANGED << regVars, txVars >>

(***************************************************************************)
(* ovs_vport_get_stats, called by a task.                                  *)
(***************************************************************************)
\* *stats = vport->offset_stats, then the four error counters are added.
GetBaseSwapped(offset, err) ==
  [offset EXCEPT !.rx_errors = @ + err.rx_errors,
                 !.tx_errors = @ + err.tx_errors,
                 !.tx_dropped = @ + err.rx_dropped,
                 !.rx_dropped = @ + err.tx_dropped]
GetBase(offset, err) ==
  [offset EXCEPT !.rx_errors = @ + err.rx_errors,
                 !.tx_errors = @ + err.tx_errors,
                 !.tx_dropped = @ + err.tx_dropped,
                 !.rx_dropped = @ + err.rx_dropped]

\* The copy of a cpu's slot is added to the four traffic counters.
GetAddLocal(stats, local) ==
  [stats EXCEPT !.rx_bytes = @ + local.rx_bytes,
                !.rx_packets = @ + local.rx_packets,
                !.tx_bytes = @ + local.tx_bytes,
                !.tx_packets = @ + local.tx_packets]

\* The number of offsets stored so far, and whether a call of
\* ovs_vport_set_stats is under way.
SetBusy == \E x \in Ctxs : cx[x].pc \in {"set_lock", "set_store"}
SetMark == << hSetSeq, SetBusy >>

\* What a call remembers of the state it began in: the contexts of the
\* cpus with traffic compare their snapshot with the counters, the caller on
\* the cpu without traffic compares two snapshots.
GetEnter(c) ==
  /\ cx' = [cx EXCEPT ![c].pc = "get_lock",
                      ![c].gSetSeq = IF hTraffic \/ c = Mgmt THEN 0 ELSE hSetSeq,
                      ![c].gPre = IF c = Mgmt THEN << >>
                                  ELSE << offset_stats, err_stats, percpu_stats >>,
                      ![c].gStart = IF c = Mgmt THEN SetMark ELSE << >>]
  /\ hQuiet' = [Disturb(c) EXCEPT ![c] = OthersIdle(c)]
  /\ UNCHANGED << offset_stats, err_stats, percpu_stats, stats_lock,
                  hErrCalls, hErrDone, hSetSeq, hLastSet, hTraffic >>
  /\ UNCHANGED << regVars, txVars >>

GetCall(c) ==
  /\ MayBegin(c)
  /\ c[2] = "task"
  /\ GetEnter(c)
  /\ nops' = nops + 1

\* The call from the cpu without traffic; it changes no counter, so it may
\* be repeated without end.
GetCallMgmt ==
  /\ cx[Mgmt].pc = "idle"
  /\ GetEnter(Mgmt)
  /\ UNCHANGED nops

\* spin_lock_bh(&vport->stats_lock)
GetLock(c) ==
  /\ cx[c].pc = "get_lock"
  /\ Runnable(c)
  /\ stats_lock = NoCtx
  /\ stats_lock' = c
  /\ cx' = [cx EXCEPT ![c].pc = "get_base"]
  /\ hQuiet' = Disturb(c)
  /\ UNCHANGED << offset_stats, err_stats, percpu_stats, nops,
                  hErrCalls, hErrDone, hSetSeq, hLastSet, hTraffic >>
  /\ UNCHANGED << regVars, txVars >>

\* *stats = vport->offset_stats; stats->... += vport->err_stats....;
\* spin_unlock_bh(&vport->stats_lock); the loop over the cpus starts.
GetBaseUnlock(c) ==
  /\ cx[c].pc = "get_base"
  /\ Runnable(c)
  /\ stats_lock' = NoCtx
  /\ cx' = [cx EXCEPT ![c].pc = "get_begin",
                      ![c].stats = GetBase(offset_stats, err_stats),
                      ![c].i = 1,
                      ![c].gCalls = IF c = Mgmt THEN ZeroErr ELSE hErrCalls,
                      ![c].gDone = IF c = Mgmt THEN ZeroErr ELSE hErrDone,
                      ![c].gOffset = IF c = Mgmt THEN ZeroStats ELSE offset_stats]
  /\ hQuiet' = Disturb(c)
  /\ UNCHANGED << offset_stats, err_stats, percpu_stats, nops,
                  hErrCalls, hErrDone, hSetSeq, hLastSet, hTraffic >>
  /\ UNCHANGED << regVars, txVars >>

\* start = u64_stats_fetch_begin_bh(&percpu_stats->syncp): the sequence
\* count is read once it is even.
GetFetchBegin(c) ==
  /\ cx[c].pc = "get_begin"
  /\ Runnable(c)
  /\ percpu_stats[cx[c].i].syncp % 2 = 0
  /\ cx' = [cx EXCEPT ![c].pc = "get_copy", ![c].start = percpu_stats[cx[c].i].syncp]
  /\ hQuiet' = Disturb(c)
  /\ UNCHANGED << offset_stats, err_stats, percpu_stats, stats_lock, nops,
                  hErrCalls, hErrDone, hSetSeq, hLastSet, hTraffic >>
  /\ UNCHANGED << regVars, txVars >>

\* local_stats = *percpu_stats is not one access: the packet counts are
\* read here,
GetCopyPackets(c) ==
  /\ cx[c].pc = "get_copy"
  /\ Runnable(c)
  /\ cx' = [cx EXCEPT ![c].pc = "get_copy2",
                      ![c].local.rx_packets = percpu_stats[cx[c].i].rx_packets,
                      ![c].local.tx_packets = percpu_stats[cx[c].i].tx_packets]
  /\ hQuiet' = Disturb(c)
  /\ UNCHANGED << offset_stats, err_stats, percpu_stats, stats_lock, nops,
                  hErrCalls, hErrDone, hSetSeq, hLastSet, hTraffic >>
  /\ UNCHANGED << regVars, txVars >>

\* and the byte counts here.
GetCopyBytes(c) ==
  /\ cx[c].pc = "get_copy2"
  /\ Runnable(c)
  /\ cx' = [cx EXCEPT ![c].pc = "get_retry",
                      ![c].local.rx_bytes = percpu_stats[cx[c].i].rx_bytes,
                      ![c].local.tx_bytes = percpu_stats[cx[c].i].tx_bytes]
  /\ hQuiet' = Disturb(c)
  /\ UNCHANGED << offset_stats, err_stats, percpu_stats, stats_lock, nops,
                  hErrCalls, hErrDone, hSetSeq, hLastSet, hTraffic >>
  /\ UNCHANGED << regVars, txVars >>

\* while (u64_stats_fetch_retry_bh(&percpu_stats->syncp, start)); then the
\* copy is added and the loop goes to the next cpu.
GetFetchRetry(c) ==
  /\ cx[c].pc = "get_retry"
  /\ Runnable(c)
  /\ IF percpu_stats[cx[c].i].syncp # cx[c].start
     THEN cx' = [cx EXCEPT ![c].pc = "get_begin", ![c].local = ZeroPcpu,
                           ![c].start = 0]
     ELSE cx' = [cx EXCEPT ![c].pc = IF cx[c].i < NumCpus THEN "get_begin"
                                     ELSE "get_done",
                           ![c].stats = GetAddLocal(cx[c].stats, cx[c].local),
                           ![c].i = IF cx[c].i < NumCpus THEN cx[c].i + 1 ELSE 0,
                           ![c].local = ZeroPcpu,
                           ![c].start = 0]
  /\ hQuiet' = Disturb(c)
  /\ UNCHANGED << offset_stats, err_stats, percpu_stats, stats_lock, nops,
                  hErrCalls, hErrDone, hSetSeq, hLastSet, hTraffic >>
  /\ UNCHANGED << regVars, txVars >>

\* ovs_vport_get_stats returns; its caller has *stats.
GetLeave(c, prev) ==
  /\ cx[c].pc = "get_done"
  /\ Runnable(c)
  /\ cx' = [cx EXCEPT ![c] = [IdleCtx EXCEPT !.gPrev = prev]]
  /\ hQuiet' = [Disturb(c) EXCEPT ![c] = FALSE]
  /\ UNCHANGED << offset_stats, err_stats, percpu_stats, stats_lock, nops,
                  hErrCalls, hErrDone, hSetSeq, hLastSet, hTraffic >>
  /\ UNCHANGED << regVars, txVars >>

GetReturn(c) == GetLeave(c, << >>)

\* The return to the caller on the cpu without traffic, who keeps the
\* snapshot to compare it with the one of its next call: the snapshot, and
\* the mark of ovs_vport_set_stats when the call began and when it returned.
GetReturnMgmt == GetLeave(Mgmt, << cx[Mgmt].stats, cx[Mgmt].gStart, SetMark >>)

(***************************************************************************)
(* ovs_vport_receive                                                       *)
(***************************************************************************)
\* stats = this_cpu_ptr(vport->percpu_stats);
\* u64_stats_update_begin(&stats->syncp)
RxBegin(c) ==
  /\ MayBegin(c)
  /\ \E len \in RxLens : cx' = [cx EXCEPT ![c].pc = "rx_packets", ![c].len = len]
  /\ percpu_stats' = [percpu_stats EXCEPT ![c[1]].syncp = @ + 1]
  /\ nops' = nops + 1
  /\ hTraffic' = TRUE
  /\ hQuiet' = Disturb(c)
  /\ UNCHANGED << offset_stats, err_stats, stats_lock,
                  hErrCalls, hErrDone, hSetSeq, hLastSet >>
  /\ UNCHANGED << regVars, txVars >>

\* stats->rx_packets++
RxPackets(c) ==
  /\ cx[c].pc = "rx_packets"
  /\ Runnable(c)
  /\ percpu_stats' = [percpu_stats EXCEPT ![c[1]].rx_packets = @ + 1]
  /\ cx' = [cx EXCEPT ![c].pc = "rx_bytes"]
  /\ hTraffic' = TRUE
  /\ hQuiet' = Disturb(c)
  /\ UNCHANGED << offset_stats, err_stats, stats_lock, nops,
                  hErrCalls, hErrDone, hSetSeq, hLastSet >>
  /\ UNCHANGED << regVars, txVars >>

\* stats->rx_bytes += skb->len
RxBytes(c) ==
  /\ cx[c].pc = "rx_bytes"
  /\ Runnable(c)
  /\ percpu_stats' = [percpu_stats EXCEPT ![c[1]].rx_bytes = @ + cx[c].len]
  /\ cx' = [cx EXCEPT ![c].pc = "rx_end"]
  /\ hTraffic' = TRUE
  /\ hQuiet' = Disturb(c)
  /\ UNCHANGED << offset_stats, err_stats, stats_lock, nops,
                  hErrCalls, hErrDone, hSetSeq, hLastSet >>
  /\ UNCHANGED << regVars, txVars >>

\* u64_stats_update_end(&stats->syncp); the packet goes to
\* ovs_dp_process_received_packet.
RxEnd(c) ==
  /\ cx[c].pc = "rx_end"
  /\ Runnable(c)
  /\ percpu_stats' = [percpu_stats EXCEPT ![c[1]].syncp = @ + 1]
  /\ cx' = [cx EXCEPT ![c] = IdleCtx]
  /\ hTraffic' = TRUE
  /\ hQuiet' = Disturb(c)
  /\ UNCHANGED << offset_stats, err_stats, stats_lock, nops,
                  hErrCalls, hErrDone, hSetSeq, hLastSet >>
  /\ UNCHANGED << regVars, txVars >>

(***************************************************************************)
(* Packets.  An sk_buff is its bytes from skb->data on (the Ethernet       *)
(* header first), the offset of its network header, and the VLAN tag kept  *)
(* out of band (vlan_tci), if any.                                         *)
(***************************************************************************)
ETH_HLEN == 14
ETH_ALEN == 6
VLAN_HLEN == 4
ETH_P_IP == 2048
ETH_P_8021Q == 33024
IP_DF == 16384
IP_MF == 8192
IP_OFFSET == 8191

\* The 16-bit big-endian field at byte offset off of d.
Get16(d, off) == d[off + 1] * 256 + d[off + 2]
Put16(d, off, x) ==
  [k \in 1..Len(d) |-> IF k = off + 1 THEN x \div 256
                       ELSE IF k = off + 2 THEN x % 256 ELSE d[k]]
\* The n bytes of d from byte offset off on: skb_copy_bits.
Bytes(d, off, n) == [k \in 1..n |-> d[off + k]]

\* unsigned int arithmetic: a 32-bit value is the pair of its 16-bit halves.
U32(n) == << n \div 65536, n % 65536 >>
U32Sub(a, b) ==
  LET lo == a[2] - b[2]
      hi == a[1] - b[1] - (IF lo < 0 THEN 1 ELSE 0)
  IN << (hi + 65536) % 65536, (lo + 65536) % 65536 >>
U32AndNot7(a) == << a[1], a[2] - (a[2] % 8) >>
U32Less(a, b) == a[1] < b[1] \/ (a[1] = b[1] /\ a[2] < b[2])
U32Val(a) == a[1] * 65536 + a[2]

\* ip_fast_csum over the header h: the complement of the one's complement
\* sum of its 16-bit words.
RECURSIVE Sum16(_, _)
Sum16(h, k) == IF k + 2 > Len(h) THEN 0 ELSE Get16(h, k) + Sum16(h, k + 2)
Fold16(x) == LET y == (x % 65536) + (x \div 65536)
             IN (y % 65536) + (y \div 65536)
IpFastCsum(h) == 65535 - Fold16(Sum16(h, 0))
\* ip_send_check: iph->check = 0; iph->check = ip_fast_csum(iph, iph->ihl)
IpSendCheck(h) ==
  LET z == Put16(h, 10, 0)
      n == (h[1] % 16) * 4
      m == IF n < Len(h) THEN n ELSE Len(h)
  IN Put16(z, 10, IpFastCsum(Bytes(z, 0, m)))

IpOptions == << 1, 1, 1, 1 >>
\* An IPv4 header of ip_hlen bytes with the given total length and
\* flags/fragment offset field.
IpHdr(ip_hlen, tot_len, fragfield) ==
  IpSendCheck(<< 64 + (ip_hlen \div 4), 0, tot_len \div 256, tot_len % 256,
                 18, 52, fragfield \div 256, fragfield % 256,
                 64, 17, 0, 0, 10, 0, 0, 1, 10, 0, 0, 2 >>
              \o (IF ip_hlen > 20 THEN IpOptions ELSE << >>))
\* The payload of a packet: its k-th byte tells its place.
Payload(n) == [k \in 1..n |-> (k * 7) % 256]
MacAddrs == << 2, 0, 0, 0, 0, 1, 2, 0, 0, 0, 0, 2 >>

NoSkb == [id |-> -1, data |-> << >>, nh |-> 0, vlan |-> << >>]
\* An IPv4 packet, tagged in band or not: the buffer handed to
\* ovs_vport_send, with skb->data at the Ethernet header.
Ipv4Skb(tagged, ip_hlen, tot_len, df) ==
  LET ip == IpHdr(ip_hlen, tot_len, IF df THEN IP_DF ELSE 0)
            \o Payload(tot_len - ip_hlen)
  IN IF tagged
     THEN [id |-> 0,
           data |-> MacAddrs \o << ETH_P_8021Q \div 256, ETH_P_8021Q % 256,
                                   0, 100,
                                   ETH_P_IP \div 256, ETH_P_IP % 256 >> \o ip,
           nh |-> ETH_HLEN + VLAN_HLEN, vlan |-> << >>]
     ELSE [id |-> 0,
           data |-> MacAddrs \o << ETH_P_IP \div 256, ETH_P_IP % 256 >> \o ip,
           nh |-> ETH_HLEN, vlan |-> << >>]
\* An ARP packet (protocol 0x0806).
ArpSkb ==
  [id |-> 0,
   data |-> MacAddrs \o << 8, 6 >> \o Payload(28),
   nh |-> ETH_HLEN, vlan |-> << >>]

\* eth_hdr(skb)->h_proto, vlan_eth_hdr(skb)->h_vlan_encapsulated_proto and
\* the fields of ip_hdr(skb).
EthProto(skb) == Get16(skb.data, 2 * ETH_ALEN)
VlanEncapProto(skb) == Get16(skb.data, ETH_HLEN + 2)
IpHdrlen(skb) == (skb.data[skb.nh + 1] % 16) * 4
IpTotLen(skb) == Get16(skb.data, skb.nh + 2)
IpFragOff(skb) == Get16(skb.data, skb.nh + 6)
IpHasDF(skb) == (IpFragOff(skb) \div IP_DF) % 2 = 1

\* ovs_vlan_untag on a packet tagged in band, skb_cow_head having
\* succeeded: the addresses move over the tag, the tag is pulled and kept
\* out of band.
VlanUntag(skb) ==
  [id |-> skb.id,
   data |-> Bytes(skb.data, 0, 2 * ETH_ALEN)
            \o Bytes(skb.data, 2 * ETH_ALEN + VLAN_HLEN,
                     Len(skb.data) - 2 * ETH_ALEN - VLAN_HLEN),
   nh |-> skb.nh - VLAN_HLEN,
   vlan |-> << Get16(skb.data, 2 * ETH_ALEN), Get16(skb.data, ETH_HLEN) >>]

(***************************************************************************)
(* ovs_vport_send                                                          *)
(***************************************************************************)
\* The vports of the model and the packets sent on them, each with the
\* frag_max_size of its flow key.  The override is set for IPv4 flows.
VportChoices == { [type |-> "NETDEV", mtu |-> 68], [type |-> "NETDEV", mtu |-> 1500],
                  [type |-> "VXLAN", mtu |-> 0] }
DefaultVport == [type |-> "NETDEV", mtu |-> 1500]
SendInputs ==
  { [skb |-> Ipv4Skb(x.tagged, x.h, IF x.t = 0 THEN x.h ELSE x.t, x.df), fms |-> x.f] :
      x \in [tagged : BOOLEAN, h : {20, 24}, t : {0, 68, 69, 100},
             df : BOOLEAN, f : {0, 10, 24, 44}] }
  \cup { [skb |-> Ipv4Skb(FALSE, 20, 3000, FALSE), fms |-> 0],
         [skb |-> Ipv4Skb(FALSE, 20, 1000, FALSE), fms |-> 600],
         [skb |-> Ipv4Skb(TRUE, 20, 1000, FALSE), fms |-> 600],
         [skb |-> ArpSkb, fms |-> 0] }
DirectInputs == { [skb |-> ArpSkb, fms |-> 0] }

IdleTx == [in |-> NoSkb, skb |-> NoSkb, cur |-> NoSkb, frag_max_size |-> 0, mtu |-> 0,
           path |-> "", ip_hlen |-> 0, flag |-> 0, left |-> 0, frag_max |-> U32(0),
           frag_off |-> 0, frag_len |-> 0, nalloc |-> 0, sent |-> 0, scont |-> "",
           ret |-> 0]

InitTx ==
  /\ tx = [c \in Ctxs |-> IdleTx]
  /\ wire = [c \in Ctxs |-> << >>]
  /\ kfree_log = [c \in Ctxs |-> << >>]

\* mtu = netdev_vport_priv(vport)->dev->mtu for the two types that have a
\* device, 0 for the others.
VportMtu(v) == IF v.type = "NETDEV" \/ v.type = "INTERNAL" THEN v.mtu ELSE 0

\* The decision of ovs_vport_send: "fragment", "send", or "untag" when the
\* tag has to be stripped before the packet is fragmented.
SendPathInclusive(skb, frag_max_size, mtu) ==
  IF frag_max_size > 0 THEN "fragment"
  ELSE IF mtu = 0 THEN "send"
  ELSE IF EthProto(skb) = ETH_P_IP
       THEN IF IpHasDF(skb) THEN "send"
            ELSE IF IpTotLen(skb) >= mtu THEN "fragment" ELSE "send"
  ELSE IF EthProto(skb) = ETH_P_8021Q /\ VlanEncapProto(skb) = ETH_P_IP
       THEN IF IpHasDF(skb) THEN "send"
            ELSE IF IpTotLen(skb) >= mtu THEN "untag" ELSE "send"
  ELSE "send"
SendPathNoOverride(skb, frag_max_size, mtu) ==
  IF mtu = 0 THEN "send"
  ELSE IF EthProto(skb) = ETH_P_IP
       THEN IF IpHasDF(skb) THEN "send"
            ELSE IF IpTotLen(skb) > mtu THEN "fragment" ELSE "send"
  ELSE IF EthProto(skb) = ETH_P_8021Q /\ VlanEncapProto(skb) = ETH_P_IP
       THEN IF IpHasDF(skb) THEN "send"
            ELSE IF IpTotLen(skb) > mtu THEN "untag" ELSE "send"
  ELSE "send"
SendPath(skb, frag_max_size, mtu) ==
  IF frag_max_size > 0 THEN "fragment"
  ELSE IF mtu = 0 THEN "send"
  ELSE IF EthProto(skb) = ETH_P_IP
       THEN IF IpHasDF(skb) THEN "send"
            ELSE IF IpTotLen(skb) > mtu THEN "fragment" ELSE "send"
  ELSE IF EthProto(skb) = ETH_P_8021Q /\ VlanEncapProto(skb) = ETH_P_IP
       THEN IF IpHasDF(skb) THEN "send"
            ELSE IF IpTotLen(skb) > mtu THEN "untag" ELSE "send"
  ELSE "send"

\* frag_max = ((frag_max_size > 0 ? frag_max_size : mtu) - ip_hlen) & ~7,
\* in unsigned int.
FragMaxUnaligned(frag_max_size, mtu, ip_hlen) ==
  U32Sub(U32(IF frag_max_size > 0 THEN frag_max_size ELSE mtu), U32(ip_hlen))
FragMax(frag_max_size, mtu, ip_hlen) ==
  U32AndNot7(U32Sub(U32(IF frag_max_size > 0 THEN frag_max_size ELSE mtu),
                    U32(ip_hlen)))

\* The locals of ovs_vport_fragment at its entry.  The packets of the model
\* have tot_len >= ip_hlen, so that left does not wrap.
FragEntry(t, skb) ==
  [t EXCEPT !.skb = skb, !.path = "fragment",
            !.ip_hlen = IpHdrlen(skb),
            !.flag = IF IpHasDF(skb) THEN IP_DF ELSE 0,
            !.left = IpTotLen(skb) - IpHdrlen(skb),
            !.frag_max = FragMax(t.frag_max_size, t.mtu, IpHdrlen(skb)),
            !.frag_off = 0, !.sent = 0]

\* ovs_vport_send(vport, skb) is entered and decides: lines 517 to 550.
\* skb_cow_head in ovs_vlan_untag may fail, and then the send returns 0.
SendCallFrom(c, inputs) ==
  /\ MayBegin(c)
  /\ \E x \in inputs :
       LET mtu == VportMtu(vp)
           t0 == [IdleTx EXCEPT !.in = x.skb, !.skb = x.skb,
                                !.frag_max_size = x.fms, !.mtu = mtu]
           path == SendPath(x.skb, x.fms, mtu)
       IN CASE path = "send" ->
                 /\ tx' = [tx EXCEPT ![c] = [t0 EXCEPT !.path = "send", !.cur = x.skb,
                                                       !.scont = "send_done"]]
                 /\ cx' = [cx EXCEPT ![c].pc = "tx_backend"]
            [] path = "fragment" ->
                 /\ tx' = [tx EXCEPT ![c] = FragEntry(t0, x.skb)]
                 /\ cx' = [cx EXCEPT ![c].pc = "frag_loop"]
            [] path = "untag" ->
                 \/ /\ tx' = [tx EXCEPT ![c] = FragEntry(t0, VlanUntag(x.skb))]
                    /\ cx' = [cx EXCEPT ![c].pc = "frag_loop"]
                 \/ /\ tx' = [tx EXCEPT ![c] = [t0 EXCEPT !.path = "drop", !.ret = 0]]
                    /\ cx' = [cx EXCEPT ![c].pc = "send_done"]
  /\ nops' = nops + 1
  /\ hTraffic' = TRUE
  /\ hQuiet' = Disturb(c)
  /\ UNCHANGED << offset_stats, err_stats, percpu_stats, stats_lock,
                  hErrCalls, hErrDone, hSetSeq, hLastSet >>
  /\ UNCHANGED << vp, wire, kfree_log >>
  /\ UNCHANGED regVars

\* A send on the direct path, among the other operations on the statistics.
SendCall(c) == SendCallFrom(c, DirectInputs)

\* The one send of a run of the transmit pipeline.
SendCallOne == nops = 0 /\ SendCallFrom(Task(1), SendInputs)

\* The fragment of frag_len bytes at frag_off: payload, IP header with its
\* total length, offset, flags and checksum, Ethernet header, and the tag.
MkFrag(skb, id, ip_hlen, frag_off, frag_len, flag) ==
  LET payload == Bytes(skb.data, ETH_HLEN + ip_hlen + frag_off, frag_len)
      h0 == Bytes(skb.data, ETH_HLEN, ip_hlen)
      h1 == Put16(h0, 2, (ip_hlen + frag_len) % 65536)
      h2 == Put16(h1, 6, ((frag_off \div 8) % (IP_OFFSET + 1)) + flag)
      h3 == IpSendCheck(h2)
  IN [id |-> id,
      data |-> Bytes(skb.data, 0, ETH_HLEN) \o h3 \o payload,
      nh |-> ETH_HLEN,
      vlan |-> skb.vlan]

\* The flags of the next fragment.
FragFlag(flag, more) ==
  IF more THEN (flag - (flag % IP_DF)) + (flag % IP_MF) + IP_MF
  ELSE (flag - (flag % IP_DF)) + (flag % IP_MF)

\* One turn of the loop of ovs_vport_fragment up to the send of the
\* fragment, or its end: a failed alloc_skb returns sent; with nothing left
\* the packet is freed and sent is returned.
FragLoop(c) ==
  /\ cx[c].pc = "frag_loop"
  /\ Runnable(c)
  /\ LET t == tx[c] IN
       IF t.left > 0
       THEN /\ t.nalloc < MaxFrags
            /\ LET more == U32Less(t.frag_max, U32(t.left))
                   flag == FragFlag(t.flag, more)
                   frag_len == IF more THEN U32Val(t.frag_max) ELSE t.left
               IN \/ /\ tx' = [tx EXCEPT ![c].flag = flag, ![c].frag_len = frag_len,
                                         ![c].nalloc = t.nalloc + 1,
                                         ![c].cur = MkFrag(t.skb, t.nalloc + 1, t.ip_hlen,
                                                           t.frag_off, frag_len, flag),
                                         ![c].scont = "frag_next"]
                     /\ cx' = [cx EXCEPT ![c].pc = "tx_backend"]
                  \/ /\ tx' = [tx EXCEPT ![c].flag = flag, ![c].frag_len = frag_len,
                                         ![c].path = "truncated",
                                         ![c].ret = t.sent]
                     /\ cx' = [cx EXCEPT ![c].pc = "send_done"]
            /\ kfree_log' = kfree_log
       ELSE /\ kfree_log' = [kfree_log EXCEPT ![c] = Append(@, t.skb.id)]
            /\ tx' = [tx EXCEPT ![c].ret = t.sent]
            /\ cx' = [cx EXCEPT ![c].pc = "send_done"]
  /\ hTraffic' = TRUE
  /\ hQuiet' = Disturb(c)
  /\ UNCHANGED << offset_stats, err_stats, percpu_stats, stats_lock, nops,
                  hErrCalls, hErrDone, hSetSeq, hLastSet >>
  /\ UNCHANGED << vp, wire >>
  /\ UNCHANGED regVars

\* sent = __ovs_vport_send(vport, frag) has returned:
\* left -= frag_len; frag_off += frag_len.
FragNext(c) ==
  /\ cx[c].pc = "frag_next"
  /\ Runnable(c)
  /\ tx' = [tx EXCEPT ![c].left = @ - tx[c].frag_len,
                      ![c].frag_off = @ + tx[c].frag_len,
                      ![c].cur = NoSkb]
  /\ cx' = [cx EXCEPT ![c].pc = "frag_loop"]
  /\ hTraffic' = TRUE
  /\ hQuiet' = Disturb(c)
  /\ UNCHANGED << offset_stats, err_stats, percpu_stats, stats_lock, nops,
                  hErrCalls, hErrDone, hSetSeq, hLastSet >>
  /\ UNCHANGED << vp, wire, kfree_log >>
  /\ UNCHANGED regVars

(***************************************************************************)
(* __ovs_vport_send                                                        *)
(***************************************************************************)
\* What vport->ops->send may return for a packet: its length, 0 for a
\* drop, a negative errno.
SendResults(skb) == {Len(skb.data), 0, -ENOMEM}

\* The branch of __ovs_vport_send on sent: where it goes next, the error it
\* records and where it goes after recording it (to kfree_skb, or back to
\* its caller at scont).
TxBranchDropFrees(sent, scont) ==
  IF sent > 0 THEN [pc |-> "tx_begin", kind |-> "", econt |-> ""]
  ELSE IF sent < 0
  THEN [pc |-> "err_lock", kind |-> "VPORT_E_TX_ERROR", econt |-> "tx_free"]
  ELSE [pc |-> "err_lock", kind |-> "VPORT_E_TX_DROPPED", econt |-> "tx_free"]
TxBranchNonZero(sent, scont) ==
  IF sent # 0 THEN [pc |-> "tx_begin", kind |-> "", econt |-> ""]
  ELSE [pc |-> "err_lock", kind |-> "VPORT_E_TX_DROPPED", econt |-> scont]
TxBranch(sent, scont) ==
  IF sent > 0 THEN [pc |-> "tx_begin", kind |-> "", econt |-> ""]
  ELSE IF sent < 0
  THEN [pc |-> "err_lock", kind |-> "VPORT_E_TX_ERROR", econt |-> "tx_free"]
  ELSE [pc |-> "err_lock", kind |-> "VPORT_E_TX_DROPPED", econt |-> scont]

\* sent = vport->ops->send(vport, skb) and the branch on it.
TxBackend(c) ==
  /\ cx[c].pc = "tx_backend"
  /\ Runnable(c)
  /\ \E r \in SendResults(tx[c].cur) :
       /\ wire' = [wire EXCEPT ![c] = Append(@, [skb |-> tx[c].cur, sent |-> r])]
       /\ tx' = [tx EXCEPT ![c].sent = r,
                           ![c].ret = IF tx[c].scont = "send_done" THEN r ELSE @]
       /\ cx' = [cx EXCEPT ![c].pc = TxBranch(r, tx[c].scont).pc,
                           ![c].kind = TxBranch(r, tx[c].scont).kind,
                           ![c].econt = TxBranch(r, tx[c].scont).econt]
       /\ hErrCalls' = IF r > 0 THEN hErrCalls
                       ELSE IF r < 0 THEN [hErrCalls EXCEPT !.tx_errors = @ + 1]
                       ELSE [hErrCalls EXCEPT !.tx_dropped = @ + 1]
  /\ hTraffic' = TRUE
  /\ hQuiet' = Disturb(c)
  /\ UNCHANGED << offset_stats, err_stats, percpu_stats, stats_lock, nops,
                  hErrDone, hSetSeq, hLastSet >>
  /\ UNCHANGED << vp, kfree_log >>
  /\ UNCHANGED regVars

\* stats = this_cpu_ptr(vport->percpu_stats);
\* u64_stats_update_begin(&stats->syncp)
TxBegin(c) ==
  /\ cx[c].pc = "tx_begin"
  /\ Runnable(c)
  /\ percpu_stats' = [percpu_stats EXCEPT ![c[1]].syncp = @ + 1]
  /\ cx' = [cx EXCEPT ![c].pc = "tx_packets"]
  /\ hTraffic' = TRUE
  /\ hQuiet' = Disturb(c)
  /\ UNCHANGED << offset_stats, err_stats, stats_lock, nops,
                  hErrCalls, hErrDone, hSetSeq, hLastSet >>
  /\ UNCHANGED << regVars, txVars >>

\* stats->tx_packets++
TxPackets(c) ==
  /\ cx[c].pc = "tx_packets"
  /\ Runnable(c)
  /\ percpu_stats' = [percpu_stats EXCEPT ![c[1]].tx_packets = @ + 1]
  /\ cx' = [cx EXCEPT ![c].pc = "tx_bytes"]
  /\ hTraffic' = TRUE
  /\ hQuiet' = Disturb(c)
  /\ UNCHANGED << offset_stats, err_stats, stats_lock, nops,
                  hErrCalls, hErrDone, hSetSeq, hLastSet >>
  /\ UNCHANGED << regVars, txVars >>

\* stats->tx_bytes += sent
TxBytes(c) ==
  /\ cx[c].pc = "tx_bytes"
  /\ Runnable(c)
  /\ percpu_stats' = [percpu_stats EXCEPT ![c[1]].tx_bytes = @ + tx[c].sent]
  /\ cx' = [cx EXCEPT ![c].pc = "tx_end"]
  /\ hTraffic' = TRUE
  /\ hQuiet' = Disturb(c)
  /\ UNCHANGED << offset_stats, err_stats, stats_lock, nops,
                  hErrCalls, hErrDone, hSetSeq, hLastSet >>
  /\ UNCHANGED << regVars, txVars >>

\* u64_stats_update_end(&stats->syncp); return sent, to ovs_vport_send,
\* which returns it, or to the loop of ovs_vport_fragment.
TxEnd(c) ==
  /\ cx[c].pc = "tx_end"
  /\ Runnable(c)
  /\ percpu_stats' = [percpu_stats EXCEPT ![c[1]].syncp = @ + 1]
  /\ cx' = [cx EXCEPT ![c].pc = tx[c].scont]
  /\ hTraffic' = TRUE
  /\ hQuiet' = Disturb(c)
  /\ UNCHANGED << offset_stats, err_stats, stats_lock, nops,
                  hErrCalls, hErrDone, hSetSeq, hLastSet >>
  /\ UNCHANGED << regVars, txVars >>

\* kfree_skb(skb) after the error was recorded; return sent.
TxFree(c) ==
  /\ cx[c].pc = "tx_free"
  /\ Runnable(c)
  /\ kfree_log' = [kfree_log EXCEPT ![c] = Append(@, tx[c].cur.id)]
  /\ cx' = [cx EXCEPT ![c].pc = tx[c].scont]
  /\ hTraffic' = TRUE
  /\ hQuiet' = Disturb(c)
  /\ UNCHANGED << offset_stats, err_stats, percpu_stats, stats_lock, nops,
                  hErrCalls, hErrDone, hSetSeq, hLastSet >>
  /\ UNCHANGED << vp, tx, wire >>
  /\ UNCHANGED regVars

\* ovs_vport_send has returned; its caller has the value.
SendReturn(c) ==
  /\ cx[c].pc = "send_done"
  /\ Runnable(c)
  /\ cx' = [cx EXCEPT ![c] = IdleCtx]
  /\ tx' = [tx EXCEPT ![c] = IdleTx]
  /\ wire' = [wire EXCEPT ![c] = << >>]
  /\ kfree_log' = [kfree_log EXCEPT ![c] = << >>]
  /\ hTraffic' = TRUE
  /\ hQuiet' = Disturb(c)
  /\ UNCHANGED << offset_stats, err_stats, percpu_stats, stats_lock, nops,
                  hErrCalls, hErrDone, hSetSeq, hLastSet >>
  /\ UNCHANGED vp
  /\ UNCHANGED regVars

(***************************************************************************)
(* Specifications.                                                         *)
(***************************************************************************)
NextReg ==
  \/ AddCall
  \/ AddCreateFail
  \/ AddAlloc
  \/ AddCreated
  \/ AddLink
  \/ AddReturn
  \/ DelUnlink
  \/ DelDestroy
  \/ DeferredFree
  \/ FreeVportRcu
  \/ \E r \in Readers : RcuReadLock(r)
  \/ \E r \in Readers : LocateCall(r)
  \/ \E r \in Readers : LocateStep(r)
  \/ \E r \in Readers : RcuReadUnlock(r)

\* The registry: one holder of ovs_mutex and the readers.
Init == InitReg /\ InitStats /\ InitTx /\ vp = DefaultVport
Next == NextReg
Spec == Init /\ [][Next]_vars

\* The statistics of one vport, new or in use: every context receives,
\* sends, records errors, and the tasks set and get the statistics.
InitStat == InitReg /\ (InitStats \/ UsedStats) /\ InitTx /\ vp = DefaultVport
NextStat ==
  \/ \E c \in Ctxs : ErrCall(c)
  \/ \E c \in Ctxs : ErrLock(c)
  \/ \E c \in Ctxs : ErrIncUnlock(c)
  \/ \E c \in Ctxs : SetCall(c)
  \/ \E c \in Ctxs : SetLock(c)
  \/ \E c \in Ctxs : SetStoreUnlock(c)
  \/ \E c \in Ctxs : GetCall(c)
  \/ \E c \in Ctxs : GetLock(c)
  \/ \E c \in Ctxs : GetBaseUnlock(c)
  \/ \E c \in Ctxs : GetFetchBegin(c)
  \/ \E c \in Ctxs : GetCopyPackets(c)
  \/ \E c \in Ctxs : GetCopyBytes(c)
  \/ \E c \in Ctxs : GetFetchRetry(c)
  \/ \E c \in Ctxs : GetReturn(c)
  \/ \E c \in Ctxs : RxBegin(c)
  \/ \E c \in Ctxs : RxPackets(c)
  \/ \E c \in Ctxs : RxBytes(c)
  \/ \E c \in Ctxs : RxEnd(c)
  \/ \E c \in Ctxs : SendCall(c)
  \/ \E c \in Ctxs : TxBackend(c)
  \/ \E c \in Ctxs : TxBegin(c)
  \/ \E c \in Ctxs : TxPackets(c)
  \/ \E c \in Ctxs : TxBytes(c)
  \/ \E c \in Ctxs : TxEnd(c)
  \/ \E c \in Ctxs : TxFree(c)
  \/ \E c \in Ctxs : SendReturn(c)
SpecStat == InitStat /\ [][NextStat]_vars

\* The per-cpu counters of a new vport: every context receives and sends
\* on the direct path, and the statistics are read from another cpu.
InitSeq == InitReg /\ InitStats /\ InitTx /\ vp = DefaultVport
NextSeq ==
  \/ \E c \in Ctxs : RxBegin(c)
  \/ \E c \in Ctxs : RxPackets(c)
  \/ \E c \in Ctxs : RxBytes(c)
  \/ \E c \in Ctxs : RxEnd(c)
  \/ \E c \in Ctxs : SendCall(c)
  \/ \E c \in Ctxs : TxBackend(c)
  \/ \E c \in Ctxs : TxBegin(c)
  \/ \E c \in Ctxs : TxPackets(c)
  \/ \E c \in Ctxs : TxBytes(c)
  \/ \E c \in Ctxs : TxEnd(c)
  \/ \E c \in Ctxs : ErrLock(c)
  \/ \E c \in Ctxs : ErrIncUnlock(c)
  \/ \E c \in Ctxs : TxFree(c)
  \/ \E c \in Ctxs : SendReturn(c)
  \/ GetCallMgmt
  \/ GetLock(Mgmt)
  \/ GetBaseUnlock(Mgmt)
  \/ GetFetchBegin(Mgmt)
  \/ GetCopyPackets(Mgmt)
  \/ GetCopyBytes(Mgmt)
  \/ GetFetchRetry(Mgmt)
  \/ GetReturn(Mgmt)
SpecSeq == InitSeq /\ [][NextSeq]_vars

\* The statistics of a vport in use, read again and again from a cpu
\* without traffic while the task and the softirq of the cpu that serves
\* the vport's device receive and send (a failed or dropped send records
\* an error) and the task sets the offset.
TrafficCtxs == {Task(1), Bh(1)}
InitMono == InitReg /\ UsedStats /\ InitTx /\ vp = DefaultVport
NextMono ==
  \/ \E c \in TrafficCtxs : ErrLock(c)
  \/ \E c \in TrafficCtxs : ErrIncUnlock(c)
  \/ \E c \in TrafficCtxs : SetCall(c)
  \/ \E c \in TrafficCtxs : SetLock(c)
  \/ \E c \in TrafficCtxs : SetStoreUnlock(c)
  \/ \E c \in TrafficCtxs : RxBegin(c)
  \/ \E c \in TrafficCtxs : RxPackets(c)
  \/ \E c \in TrafficCtxs : RxBytes(c)
  \/ \E c \in TrafficCtxs : RxEnd(c)
  \/ \E c \in TrafficCtxs : SendCall(c)
  \/ \E c \in TrafficCtxs : TxBackend(c)
  \/ \E c \in TrafficCtxs : TxBegin(c)
  \/ \E c \in TrafficCtxs : TxPackets(c)
  \/ \E c \in TrafficCtxs : TxBytes(c)
  \/ \E c \in TrafficCtxs : TxEnd(c)
  \/ \E c \in TrafficCtxs : TxFree(c)
  \/ \E c \in TrafficCtxs : SendReturn(c)
  \/ GetCallMgmt
  \/ GetLock(Mgmt)
  \/ GetBaseUnlock(Mgmt)
  \/ GetFetchBegin(Mgmt)
  \/ GetCopyPackets(Mgmt)
  \/ GetCopyBytes(Mgmt)
  \/ GetFetchRetry(Mgmt)
  \/ GetReturnMgmt
SpecMono == InitMono /\ [][NextMono]_vars

\* The transmit pipeline: one packet is sent on one vport by one task.
InitSend == InitReg /\ InitStats /\ InitTx /\ vp \in VportChoices
NextSend ==
  \/ SendCallOne
  \/ FragLoop(Task(1))
  \/ FragNext(Task(1))
  \/ TxBackend(Task(1))
  \/ TxBegin(Task(1))
  \/ TxPackets(Task(1))
  \/ TxBytes(Task(1))
  \/ TxEnd(Task(1))
  \/ ErrLock(Task(1))
  \/ ErrIncUnlock(Task(1))
  \/ TxFree(Task(1))
SpecSend == InitSend /\ [][NextSend]_vars

(***************************************************************************)
(* The claims.                                                             *)
(***************************************************************************)

\* The vport a reader stands on or holds.
Held(r) ==
  (IF rd[r].pc = "loop" /\ rd[r].cur # NULL THEN {rd[r].cur} ELSE {})
  \cup (IF rd[r].pc = "ret" /\ rd[r].res # NULL THEN {rd[r].res} ELSE {})

\* C1: every locate that has returned returned NULL or a vport that was
\* initialized and linked in the registry at some point of the call, and no
\* reader has dereferenced, stands on or holds memory that is not an
\* initialized, unfreed vport.
LocateReturnsAttached ==
  /\ rd[Observed].pc = "ret" =>
       rd[Observed].res = NULL \/ rd[Observed].res \in hSeen
  /\ \A r \in Readers :
       /\ ~hFault[r]
       /\ \A v \in Held(r) : ValidVport(v)

\* C1 witness: a locate has returned a vport that ovs_vport_del unlinked
\* while the call was running.
LocateRacedDel ==
  /\ rd[Observed].pc = "ret"
  /\ rd[Observed].res # NULL
  /\ rd[Observed].res \notin hAttached

\* C2: a vport is freed only after every reader that was inside a read-side
\* section when its deferred free was requested has left the section, and no
\* reader stands on or holds a freed vport.
FreeAfterGracePeriod ==
  \A v \in Vports :
    vmem[v] = "freed" =>
      /\ hGrace[v] = {}
      /\ \A r \in Readers : v \notin Held(r) /\ ~hFault[r]

\* C2 witness: a reader holds a vport that is unlinked and whose deferred
\* free has been requested; the callback waits for that reader.
ReaderHoldsDoomed ==
  \E v \in Vports, r \in Readers :
    /\ rcu_cb[v] = "queued"
    /\ v \in Held(r)
    /\ r \in rcu_wait[v]

\* C3: a locate that started after ovs_vport_add returned a vport of its
\* name and namespace, not deleted since, returns a vport of that name and
\* namespace; no locate returns a vport whose ovs_vport_del had returned
\* before the locate started.
LocateVisibility ==
  rd[Observed].pc = "ret" =>
    /\ (\E v \in hLive : vname[v] = rd[Observed].name /\ vnet[v] = rd[Observed].net) =>
         /\ rd[Observed].res \in Vports
         /\ vname[rd[Observed].res] = rd[Observed].name
         /\ vnet[rd[Observed].res] = rd[Observed].net
    /\ rd[Observed].res \notin hGone

\* C3 witness: a locate that started after one vport had been deleted and
\* another added has returned the added one.
LocateFoundLive ==
  /\ rd[Observed].pc = "ret"
  /\ rd[Observed].res \in hLive
  /\ hGone # {}

ErrFields == {"rx_dropped", "rx_errors", "tx_dropped", "tx_errors"}
TrafficFields == {"rx_packets", "rx_bytes", "tx_packets", "tx_bytes"}
Getters == {c \in Ctxs : cx[c].pc = "get_done"}

\* The sum of a counter over the slots of the cpus 1..n.
RECURSIVE SumPcpu(_, _, _)
SumPcpu(pcpu, f, n) == IF n = 0 THEN 0 ELSE pcpu[n][f] + SumPcpu(pcpu, f, n - 1)

\* What the source documents for ovs_vport_get_stats: the offset, plus the
\* error counters, plus the sums over the cpus.
Snapshot(offset, err, pcpu) ==
  [f \in DOMAIN offset |->
     offset[f] + (IF f \in ErrFields THEN err[f] ELSE SumPcpu(pcpu, f, NumCpus))]

RightAfterSet(c) ==
  /\ cx[c].pc = "get_done"
  /\ cx[c].gSetSeq > 0
  /\ cx[c].gSetSeq = hSetSeq
  /\ ~hTraffic

\* C5 as stated: set_stats(S) followed at once by get_stats returns
\* exactly S in all eight counters.
RoundTripExact ==
  \A c \in Ctxs : RightAfterSet(c) => cx[c].stats = hLastSet

\* C5 amended: set_stats(S) followed at once by get_stats returns S plus
\* what the vport has accumulated, its error counters and the sums of the
\* traffic counters of the cpus; it returns exactly S when all of these are
\* zero.
RoundTripOffset ==
  \A c \in Ctxs : RightAfterSet(c) =>
    /\ cx[c].stats = Snapshot(hLastSet, err_stats, percpu_stats)
    /\ (err_stats = ZeroErr /\ \A f \in TrafficFields : SumPcpu(percpu_stats, f, NumCpus) = 0)
         => cx[c].stats = hLastSet

\* C5 witness: a get_stats right after a set_stats on a vport that had
\* recorded an error or passed a packet before.
RoundTripOnUsedVport ==
  \E c \in Ctxs :
    /\ RightAfterSet(c)
    /\ \/ err_stats # ZeroErr
       \/ \E f \in TrafficFields : SumPcpu(percpu_stats, f, NumCpus) > 0

\* C6: a get_stats during which no other context took a step returns, for
\* every counter, the offset last set plus the error counters plus the sums
\* over the cpus, and leaves the stored counters as they were.
QuietSnapshot ==
  \A c \in Getters : hQuiet[c] =>
    /\ cx[c].stats = Snapshot(offset_stats, err_stats, percpu_stats)
    /\ cx[c].gPre = << offset_stats, err_stats, percpu_stats >>

\* C6 witness: a quiet get_stats on a vport with an offset set, an error
\* recorded and a packet counted.
QuietGetOnBusyVport ==
  \E c \in Getters :
    /\ hQuiet[c]
    /\ offset_stats # ZeroStats
    /\ err_stats.tx_dropped + err_stats.rx_dropped > 0

\* The sender of the transmit pipeline, its call and what it handed to the
\* backend.
Sender == Task(1)
SendDone == cx[Sender].pc = "send_done"
Sent == wire[Sender]
Frames == [i \in 1..Len(Sent) |-> Sent[i].skb]
Ceiling == IF tx[Sender].frag_max_size > 0 THEN tx[Sender].frag_max_size
           ELSE tx[Sender].mtu
IsIpv4(skb) ==
  \/ EthProto(skb) = ETH_P_IP
  \/ EthProto(skb) = ETH_P_8021Q /\ VlanEncapProto(skb) = ETH_P_IP
IsTagged(skb) == EthProto(skb) = ETH_P_8021Q
\* The IP payload of a packet, and the fields of a fragment as its
\* receiver reads them.
IpPayload(skb) ==
  Bytes(skb.data, skb.nh + IpHdrlen(skb), IpTotLen(skb) - IpHdrlen(skb))
FragHasMF(f) == (IpFragOff(f) \div IP_MF) % 2 = 1
FragOffset(f) == (IpFragOff(f) % (IP_OFFSET + 1)) * 8
RECURSIVE SumPayloadLens(_, _)
SumPayloadLens(fr, n) ==
  IF n = 0 THEN 0
  ELSE IpTotLen(fr[n]) - IpHdrlen(fr[n]) + SumPayloadLens(fr, n - 1)

\* C7: when ovs_vport_send has fragmented an oversize IPv4 packet that has
\* a payload, every allocation having succeeded, the payloads of the
\* fragments placed at their offset fields times 8 cover every byte of the
\* original IP payload exactly once and with its value, the payload lengths
\* sum to the original's, and the last fragment, and only it, has
\* more-fragments clear.
ReassemblyExact ==
  (/\ SendDone
   /\ tx[Sender].path = "fragment"
   /\ IsIpv4(tx[Sender].in)
   /\ IpTotLen(tx[Sender].in) > Ceiling
   /\ IpTotLen(tx[Sender].in) > IpHdrlen(tx[Sender].in)) =>
    LET orig == IpPayload(tx[Sender].in)
        P == Len(orig)
        fr == Frames
        n == Len(fr)
        Covers(i, p) == /\ FragOffset(fr[i]) <= p
                        /\ p < FragOffset(fr[i]) + Len(IpPayload(fr[i]))
    IN /\ n >= 1
       /\ \A p \in 0..(P - 1) :
            /\ Cardinality({i \in 1..n : Covers(i, p)}) = 1
            /\ \A i \in 1..n :
                 Covers(i, p) => IpPayload(fr[i])[p - FragOffset(fr[i]) + 1] = orig[p + 1]
       /\ \A i \in 1..n : FragOffset(fr[i]) + Len(IpPayload(fr[i])) <= P
       /\ SumPayloadLens(fr, n) = P
       /\ \A i \in 1..n : FragHasMF(fr[i]) <=> i < n

\* The payload bytes a fragment carries after a header of H bytes.
CarriedLen(f, H) == Len(f.data) - ETH_HLEN - H

\* C8: when ovs_vport_send has fragmented an IPv4 packet of payload length
\* P and header length H with ceiling C, where U, C - H rounded down to a
\* multiple of 8, is at least 8, and every allocation succeeded, it handed
\* ceil(P / U) fragments to the backend; the i-th has the offset field
\* (i-1)*U/8, every fragment but the last carries U bytes, total length
\* H + U, with more-fragments set, and the last carries the remaining
\* P - (n-1)*U bytes with more-fragments clear.
FragmentLayout ==
  (/\ SendDone
   /\ tx[Sender].path = "fragment"
   /\ Ceiling >= IpHdrlen(tx[Sender].in) + 8) =>
    LET H == IpHdrlen(tx[Sender].in)
        P == IpTotLen(tx[Sender].in) - H
        U == ((Ceiling - H) \div 8) * 8
        n == (P + U - 1) \div U
        fr == Frames
    IN /\ Len(fr) = n
       /\ \A i \in 1..n :
            /\ IpFragOff(fr[i]) % (IP_OFFSET + 1) = ((i - 1) * U) \div 8
            /\ FragHasMF(fr[i]) <=> i < n
            /\ CarriedLen(fr[i], H) = (IF i < n THEN U ELSE P - (n - 1) * U)
            /\ IpTotLen(fr[i]) = H + CarriedLen(fr[i], H)

\* C8 witness: a packet of total length 3000 and header length 20 sent on
\* a port of MTU 1500 has given fragments of 1480, 1480 and 20 bytes.
ThreeFragmentsOf3000 ==
  /\ SendDone
  /\ tx[Sender].path = "fragment"
  /\ tx[Sender].mtu = 1500
  /\ tx[Sender].frag_max_size = 0
  /\ IpTotLen(tx[Sender].in) = 3000
  /\ Len(Sent) = 3
  /\ CarriedLen(Frames[1], 20) = 1480
  /\ CarriedLen(Frames[2], 20) = 1480
  /\ CarriedLen(Frames[3], 20) = 20

\* Without an override, the packets ovs_vport_send has to fragment: the
\* port has an MTU, the packet is IPv4, plain or tagged, don't-fragment is
\* clear and the total length exceeds the MTU.
NeedsFragmenting(skb, mtu) ==
  /\ mtu > 0
  /\ IsIpv4(skb)
  /\ ~IpHasDF(skb)
  /\ IpTotLen(skb) > mtu
SentUnmodifiedOnce == Len(Sent) = 1 /\ Sent[1].skb = tx[Sender].in
Fragmented ==
  /\ tx[Sender].path \in {"fragment", "truncated"}
  /\ \A i \in 1..Len(Sent) : Sent[i].skb.id # tx[Sender].in.id

\* C9 as stated: without an override ovs_vport_send fragments exactly the
\* packets that need it, a tagged one when the strip of its tag succeeded,
\* and hands every other packet unmodified to the backend exactly once.
FragmentIffOversize ==
  (SendDone /\ tx[Sender].frag_max_size = 0) =>
    IF NeedsFragmenting(tx[Sender].in, tx[Sender].mtu) /\ tx[Sender].path # "drop"
    THEN Fragmented
    ELSE SentUnmodifiedOnce

\* C9 amended: as stated, but a tagged packet that needs fragmenting and
\* whose tag strip fails is not handed to the backend at all, and
\* ovs_vport_send returns 0.
FragmentIffOversizeOrDrop ==
  (SendDone /\ tx[Sender].frag_max_size = 0) =>
    IF NeedsFragmenting(tx[Sender].in, tx[Sender].mtu)
    THEN IF tx[Sender].path = "drop"
         THEN IsTagged(tx[Sender].in) /\ Sent = << >> /\ tx[Sender].ret = 0
         ELSE Fragmented
    ELSE SentUnmodifiedOnce

\* C9 witness: a tagged packet one byte longer than the MTU was stripped
\* of its tag and fragmented.
TaggedOneOverMtu ==
  /\ SendDone
  /\ tx[Sender].frag_max_size = 0
  /\ IsTagged(tx[Sender].in)
  /\ IpTotLen(tx[Sender].in) = tx[Sender].mtu + 1
  /\ tx[Sender].path = "fragment"
  /\ Len(Sent) = 2

\* C10: with an override, whatever the port, its MTU and the length of
\* the packet, ovs_vport_send hands only fragments to the backend, never
\* the packet itself, and every fragment with more-fragments set carries
\* the override less the header length rounded down to a multiple of 8,
\* so that no fragment is longer than an override that leaves room for
\* the header.
OverrideDrivesFragmenting ==
  (cx[Sender].pc # "idle" /\ tx[Sender].frag_max_size > 0) =>
    LET H == IpHdrlen(tx[Sender].in)
        C == tx[Sender].frag_max_size
    IN /\ tx[Sender].path \in {"fragment", "truncated"}
       /\ cx[Sender].pc = "tx_backend" => tx[Sender].cur.id # tx[Sender].in.id
       /\ \A i \in 1..Len(Sent) :
            /\ Sent[i].skb.id # tx[Sender].in.id
            /\ FragHasMF(Sent[i].skb) =>
                 /\ C >= H
                 /\ CarriedLen(Sent[i].skb, H) = ((C - H) \div 8) * 8
            /\ C >= H => IpTotLen(Sent[i].skb) <= C

\* C10 witness: a packet of total length 1000 with the override 600 on a
\* port of MTU 1500 has given two fragments of total length at most 600.
OverrideBelowMtu ==
  /\ SendDone
  /\ tx[Sender].mtu = 1500
  /\ tx[Sender].frag_max_size = 600
  /\ ~IsTagged(tx[Sender].in)
  /\ IpTotLen(tx[Sender].in) = 1000
  /\ Len(Sent) = 2
  /\ IpTotLen(Frames[1]) = 596
  /\ IpTotLen(Frames[2]) = 424

\* The chain of a bucket: the vports reached from its head by n->next.
RECURSIVE ChainFrom(_, _, _)
ChainFrom(next, p, k) ==
  IF p \notin Vports \/ k = 0 THEN << >>
  ELSE << p >> \o ChainFrom(next, next[p], k - 1)
Chains == [b \in Buckets |-> ChainFrom(hnext, dev_table[b], MaxVports)]
Supported(type) == \E i \in 1..Len(vport_ops_list) : vport_ops_list[i] = type
Linked(ch, v) == \E b \in Buckets : \E i \in 1..Len(ch[b]) : ch[b][i] = v

\* C11: ovs_vport_add returns -EAFNOSUPPORT at once exactly for a type no
\* implementation of the list has, and the error of create when create
\* fails, and no step of these calls changes a chain of the registry; the
\* only step of an add that changes the registry is the one that returns
\* the vport: it puts the vport, linked nowhere before, at the head of the
\* bucket of its namespace and name and leaves the other chains as they
\* were.
AddInsertsOnlyOnSuccess ==
  [][/\ (wpc = "idle" /\ wpc' = "added") =>
          /\ ~Supported(wparms'.type)
          /\ wret' = -EAFNOSUPPORT
     /\ (wpc = "idle" /\ wpc' = "create") => Supported(wparms'.type)
     /\ (wpc = "create" /\ wpc' = "added") => wret' < 0
     /\ (wpc \in {"idle", "create", "init", "added"}
          /\ wpc' \in {"idle", "create", "init", "link", "added"}) =>
          Chains' = Chains
     /\ (wpc = "link" /\ wpc' = "link") => Chains' = Chains
     /\ (wpc = "link" /\ wpc' # "link") =>
          LET v == wret'
              b == hash_bucket(vnet'[v], vname'[v])
          IN /\ wpc' = "added"
             /\ v \in Vports
             /\ ~Linked(Chains, v)
             /\ Chains' = [Chains EXCEPT ![b] = << v >> \o @]
    ]_vars

\* C11 witness: an add of an unsupported type has returned -EAFNOSUPPORT
\* while the registry holds a vport.
AddUnsupportedReturned ==
  /\ wpc = "added"
  /\ wret = -EAFNOSUPPORT
  /\ \E v \in Vports : Linked(Chains, v)

\* The backend sends that failed, and how often a buffer was released.
SendFailures == {i \in 1..Len(Sent) : Sent[i].sent < 0}
Freed(id) == Cardinality({i \in 1..Len(kfree_log[Sender]) : kfree_log[Sender][i] = id})

\* C12: when ovs_vport_send has returned, every packet the backend failed
\* to send (negative result) has added one to tx_errors and was released
\* once, and the value ovs_vport_send returns is not negative.
TxFailureNotPropagated ==
  SendDone =>
    /\ err_stats.tx_errors = Cardinality(SendFailures)
    /\ \A i \in SendFailures : Freed(Sent[i].skb.id) = 1
    /\ tx[Sender].ret >= 0

\* C13: whatever way the receives and direct sends of the contexts of a cpu
\* interleave (a softirq may interrupt the task in the middle of its update),
\* a completed ovs_vport_get_stats has added, for every cpu, a packet count
\* and a byte count that stand for the same completed updates: on a new
\* vport, with every received packet 3 bytes and every sent one 42 bytes
\* long, the bytes of the snapshot are the packets times the length.
SnapshotPairsConsistent ==
  cx[Mgmt].pc = "get_done" =>
    /\ \A len \in RxLens : cx[Mgmt].stats.rx_bytes = len * cx[Mgmt].stats.rx_packets
    /\ \A in \in DirectInputs :
         cx[Mgmt].stats.tx_bytes = Len(in.skb.data) * cx[Mgmt].stats.tx_packets

\* The calls of the backend's send, by their result.
SendsWith(P(_)) == {i \in 1..Len(Sent) : P(Sent[i].sent)}
Positive(r) == r > 0
Negative(r) == r < 0
Zero(r) == r = 0
RECURSIVE SumSent(_)
SumSent(n) ==
  IF n = 0 THEN 0
  ELSE (IF Sent[n].sent > 0 THEN Sent[n].sent ELSE 0) + SumSent(n - 1)

\* C14: when ovs_vport_send has returned, on a new vport, every call of the
\* backend's send has changed its own group of counters and nothing else:
\* this cpu's tx_packets is the number of positive results and its tx_bytes
\* their sum, tx_errors is the number of negative results, tx_dropped the
\* number of zero results, the rx counters and the offset are untouched,
\* and a buffer handed to the backend was released by the generic layer
\* exactly when the result was negative.
SendFrameEffect ==
  SendDone =>
    /\ percpu_stats[Sender[1]].tx_packets = Cardinality(SendsWith(Positive))
    /\ percpu_stats[Sender[1]].tx_bytes = SumSent(Len(Sent))
    /\ err_stats = [ZeroErr EXCEPT !.tx_errors = Cardinality(SendsWith(Negative)),
                                   !.tx_dropped = Cardinality(SendsWith(Zero))]
    /\ percpu_stats[Sender[1]].rx_packets = 0
    /\ percpu_stats[Sender[1]].rx_bytes = 0
    /\ offset_stats = ZeroStats
    /\ \A i \in 1..Len(Sent) :
         Freed(Sent[i].skb.id) = IF Sent[i].sent < 0 THEN 1 ELSE 0

\* A send whose backend calls returned all three kinds of result.
AllThreeResults ==
  /\ SendDone
  /\ SendsWith(Positive) # {}
  /\ SendsWith(Negative) # {}
  /\ SendsWith(Zero) # {}

\* C15: when ovs_vport_send has returned from ovs_vport_fragment, after the
\* last fragment or after a fragment could not be allocated, the packet it
\* was given has been released exactly once.
FragmentReleasesOriginalOnce ==
  SendDone /\ tx[Sender].path \in {"fragment", "truncated"} =>
    Freed(tx[Sender].in.id) = 1

\* C16: when stripping the tag of an oversize tagged IPv4 packet has failed,
\* ovs_vport_send has returned without a call of the backend's send and the
\* packet has been released exactly once.
UntagFailureDropsAndFrees ==
  SendDone /\ tx[Sender].path = "drop" =>
    /\ IsTagged(tx[Sender].in)
    /\ Sent = << >>
    /\ Freed(tx[Sender].in.id) = 1

\* The positions at which a context is about to take vport->stats_lock.
LockPcs == {"err_lock", "set_lock", "get_lock"}

\* C17: the stats lock is interrupt-safe: while the task of a cpu holds it,
\* no softirq of that cpu is trying to take it, so no context spins on a
\* lock held by the context it has interrupted.
StatsLockInterruptSafe ==
  \A cpu \in CPUs : stats_lock = Task(cpu) => cx[Bh(cpu)].pc \notin LockPcs

\* The second of two ovs_vport_get_stats calls of the same caller has its
\* snapshot, and the first one's is kept.
SecondGetDone == cx[Mgmt].pc = "get_done" /\ cx[Mgmt].gPrev # << >>
NotBelowFirst == \A f \in DOMAIN ZeroStats : cx[Mgmt].stats[f] >= cx[Mgmt].gPrev[1][f]

\* No stored error counter and no per-cpu counter is decremented by a step.
NeverDecremented ==
  /\ \A f \in DOMAIN ZeroErr : err_stats'[f] >= err_stats[f]
  /\ \A cpu \in CPUs : \A f \in TrafficFields :
       percpu_stats'[cpu][f] >= percpu_stats[cpu][f]

\* C18 as stated: of two ovs_vport_get_stats calls, the second begun after
\* the first returned and no ovs_vport_set_stats between them (none under
\* way at that return or at that beginning, none having stored an offset
\* from the one to the other), the second reports no counter below the
\* first; and no stored counter is ever decremented.
MonotonicNoSetBetween ==
  /\ [](SecondGetDone /\ cx[Mgmt].gPrev[3] = cx[Mgmt].gStart /\ ~cx[Mgmt].gStart[2]
          => NotBelowFirst)
  /\ [][NeverDecremented]_vars

\* C18 amended: the same when no ovs_vport_set_stats has stored an offset
\* from the beginning of the first call to the return of the second.
MonotonicNoSetSince ==
  /\ [](SecondGetDone /\ cx[Mgmt].gPrev[2][1] = hSetSeq => NotBelowFirst)
  /\ [][NeverDecremented]_vars

\* C18 witness: the second call reports more than the first in an error
\* counter and in a traffic counter, no offset stored meanwhile.
SecondGetGrew ==
  /\ SecondGetDone
  /\ cx[Mgmt].gPrev[2][1] = hSetSeq
  /\ \E f \in ErrFields : cx[Mgmt].stats[f] > cx[Mgmt].gPrev[1][f]
  /\ \E f \in TrafficFields : cx[Mgmt].stats[f] > cx[Mgmt].gPrev[1][f]

\* C19: ovs_vport_send always completes: the loop of ovs_vport_fragment
\* runs while bytes are left, so it ends after finitely many calls of the
\* backend's send exactly if every pass, once its send has returned, leaves
\* fewer bytes than it found.
FragmentLoopProgress ==
  [][cx[Sender].pc = "frag_next" /\ cx'[Sender].pc = "frag_loop"
       => tx'[Sender].left < tx[Sender].left]_vars

\* C20: every fragment ovs_vport_fragment hands to the backend has an IP
\* total length, header plus slice of the payload, of at most the ceiling of
\* the send: frag_max_size when it is positive, the MTU of the device
\* otherwise.
FragmentsWithinCeiling ==
  tx[Sender].path \in {"fragment", "truncated"} =>
    \A i \in 1..Len(Sent) :
      /\ IpTotLen(Sent[i].skb) = Len(Sent[i].skb.data) - ETH_HLEN
      /\ IpTotLen(Sent[i].skb) <= Ceiling

====
